---- MODULE Spec2Model ----
(***************************************************************************)
(* State-machine model of the GeneMarketFHE ledger contract                *)
(* (src/frontend/web/src/App.tsx, lines 544-843).                          *)
(*                                                                         *)
(* Every external function of the contract is one action.  The outcome of  *)
(* a call is computed by its ...Result operator, which walks the modifiers *)
(* and the revert statements in source order.  A call that reverts rolls   *)
(* back every write (EVM semantics), so it is a stuttering step; an        *)
(* accepted call performs the writes of the function body and is recorded  *)
(* in lastCall.                                                            *)
(*                                                                         *)
(* The confidential-computing engine (FHE library) is modelled             *)
(* symbolically: ciphertext handles are numbers, handle 0 is the           *)
(* uninitialised handle, homomorphic add derives a fresh handle from its   *)
(* two operands without collisions, keccak256 is collision free and never  *)
(* yields the zero word, and checkSignatures is an input of the callback   *)
(* (proofOk).  Timestamps and cooldowns stay far below 2^256, so the       *)
(* checked additions of the cooldown modifiers never overflow.             *)
(***************************************************************************)
EXTENDS Integers, Sequences, FiniteSets, TLC

\* ------------------------------------------------------------------ bounds
MaxBatch == 2
MaxLen == 2
MaxRequests == 2
MaxTicks == 2
MaxCalls == 5

\* ------------------------------------------------------- program constants
DefaultCooldown == 60

\* The block timestamp advances in steps of half the default cooldown; the
\* contract is deployed well after the epoch.
TickStep == DefaultCooldown \div 2
StartTime == 2 * DefaultCooldown
MaxTime == StartTime + MaxTicks * TickStep

Deployer == "deployer"
Addresses == {"deployer", "alice"}
ContractAddress == "GeneMarketFHE"

BatchIds == 0..(MaxBatch + 1)
RequestIds == 0..MaxRequests
CooldownInputs == {0, TickStep, DefaultCooldown}

\* ------------------------------------------------- engine (FHE) primitives
\* Handle 0 is the uninitialised handle, EncryptedZero the handle the engine
\* gives the trivial encryption of 0, Ciphertext a provider's own ciphertext.
Uninitialized == 0
EncryptedZero == 1
Ciphertext == EncryptedZero + 1
HandleBase == Ciphertext + 1
InputHandles == {Uninitialized, EncryptedZero, Ciphertext}
HandleLists == UNION {[1..n -> InputHandles] : n \in 0..MaxLen}

FHE_isInitialized(val) == val # Uninitialized

FHE_asEuint32_0 == EncryptedZero

\* Homomorphic add: the result handle is derived from both operand handles.
FHE_add(lhs, rhs) == lhs * HandleBase + rhs

Bytes32Zero == <<>>

_hashCiphertexts(cts) == <<cts, ContractAddress>>

\* Mutant: handles are stored as given, uninitialised ones included.
_initIfNeeded_Off(val) == val

_initIfNeeded(val) ==
    IF ~FHE_isInitialized(val) THEN FHE_asEuint32_0 ELSE val

\* The loop of submitEncryptedGeneticData: push the normalised points in order.
RECURSIVE pushAll(_, _)
pushAll(stored, dataPoints) ==
    IF dataPoints = <<>> THEN stored
    ELSE pushAll(Append(stored, _initIfNeeded(Head(dataPoints))), Tail(dataPoints))

\* Mutant: the old list is not deleted before the new points are pushed.
overwriteDataPoints_NoDelete(previous, dataPoints) == pushAll(previous, dataPoints)

\* delete data.dataPoints, then the loop: the new list replaces the old one.
overwriteDataPoints(previous, dataPoints) == pushAll(<<>>, dataPoints)

\* The summing loop shared by requestResearchCalculation and the callback's
\* reconstruction: the first point seeds the sum, the others are added to it.
RECURSIVE sumLoop(_, _, _)
sumLoop(encryptedSum, initialized, dataPoints) ==
    IF dataPoints = <<>>
    THEN (IF ~initialized THEN FHE_asEuint32_0 ELSE encryptedSum)
    ELSE IF ~initialized
         THEN sumLoop(Head(dataPoints), TRUE, Tail(dataPoints))
         ELSE sumLoop(FHE_add(encryptedSum, Head(dataPoints)), TRUE, Tail(dataPoints))

\* ------------------------------------------------------------------- state
VARIABLES
    owner,
    isProvider,
    paused,
    cooldownSeconds,
    lastSubmissionTime,
    lastDecryptionRequestTime,
    currentBatchId,
    isBatchOpen,
    batchSubmissionCount,
    batchGeneticData,
    decryptionContexts,
    blockTimestamp,      \* block.timestamp
    requestCounter,      \* the engine's next fresh request id
    requester,           \* history: msg.sender of the request, per request id
    requestedData,       \* history: the stored list the request summed
    submitSince,         \* history: a submit was accepted since the request
    completions,         \* history: successful callbacks, per request id
    closedBatches,       \* history: the batch ids closeBatch has closed
    submittedAt,         \* history: time of each sender's last accepted submit
    requestedAt,         \* history: time of each sender's last accepted request
    adminAtRequest,      \* history: the owner when the request was made
    calls,               \* history: number of calls that did not revert
    lastCall             \* the most recent call and its outcome

ledger == <<owner, isProvider, paused, cooldownSeconds, lastSubmissionTime,
            lastDecryptionRequestTime, currentBatchId, isBatchOpen,
            batchSubmissionCount, batchGeneticData, decryptionContexts>>

history == <<requester, requestedData, submitSince, completions, closedBatches,
             submittedAt, requestedAt, adminAtRequest>>

vars == <<ledger, blockTimestamp, requestCounter, history, calls, lastCall>>

NoOne == "none"

\* An accepted call: the function, msg.sender and the arguments it was given
\* (target: the address argument; value: the number argument).
Call(op, sender, target, value, batchId, requestId, dataPoints, proofOk) ==
    [op |-> op, sender |-> sender, target |-> target, value |-> value,
     batchId |-> batchId, requestId |-> requestId,
     dataPoints |-> dataPoints, proofOk |-> proofOk]

EmptyContext == [batchId |-> 0, stateHash |-> Bytes32Zero, processed |-> FALSE]

Init ==
    /\ owner = Deployer
    /\ isProvider = [a \in Addresses |-> a = Deployer]
    /\ paused = FALSE
    /\ cooldownSeconds = DefaultCooldown
    /\ lastSubmissionTime = [a \in Addresses |-> 0]
    /\ lastDecryptionRequestTime = [a \in Addresses |-> 0]
    /\ currentBatchId = 0
    /\ isBatchOpen = [b \in BatchIds |-> FALSE]
    /\ batchSubmissionCount = [b \in BatchIds |-> 0]
    /\ batchGeneticData = [b \in BatchIds |-> [a \in Addresses |-> <<>>]]
    /\ decryptionContexts = [r \in RequestIds |-> EmptyContext]
    /\ blockTimestamp = StartTime
    /\ requestCounter = 0
    /\ requester = [r \in RequestIds |-> NoOne]
    /\ requestedData = [r \in RequestIds |-> <<>>]
    /\ submitSince = [r \in RequestIds |-> FALSE]
    /\ completions = [r \in RequestIds |-> 0]
    /\ closedBatches = {}
    /\ submittedAt = [a \in Addresses |-> 0]
    /\ requestedAt = [a \in Addresses |-> 0]
    /\ adminAtRequest = [r \in RequestIds |-> NoOne]
    /\ calls = 0
    /\ lastCall = Call("constructor", Deployer, NoOne, 0, 0, 0, <<>>, FALSE)

\* --------------------------------------------------------------- modifiers
\* Mutant: the administrator check lets everyone through.
onlyOwner_Off(sender) == TRUE

onlyOwner(sender) == sender = owner

onlyProvider(sender) == isProvider[sender]

\* Mutant: the pause check lets every call through.
whenNotPaused_Off == TRUE

whenNotPaused == ~paused

\* Mutant: submissions are gated by the slot of the decryption requests.
respectSubmissionCooldown_SharedSlot(sender) ==
    ~(blockTimestamp < lastDecryptionRequestTime[sender] + cooldownSeconds)

\* Mutant: the window is measured with the cooldown of deployment time.
respectSubmissionCooldown_Default(sender) ==
    ~(blockTimestamp < lastSubmissionTime[sender] + DefaultCooldown)

\* Mutant: the submission cooldown is never enforced.
respectSubmissionCooldown_Off(sender) == TRUE

respectSubmissionCooldown(sender) ==
    ~(blockTimestamp < lastSubmissionTime[sender] + cooldownSeconds)

\* Mutant: the boundary instant still counts as inside the cooldown.
respectDecryptionCooldown_Exclusive(sender) ==
    ~(blockTimestamp <= lastDecryptionRequestTime[sender] + cooldownSeconds)

respectDecryptionCooldown(sender) ==
    ~(blockTimestamp < lastDecryptionRequestTime[sender] + cooldownSeconds)

\* ------------------------------------------------------- call outcomes
AdminResult(sender) == IF ~onlyOwner(sender) THEN "NotOwner" ELSE "ok"

AdminUnpausedResult(sender) ==
    IF ~onlyOwner(sender) THEN "NotOwner"
    ELSE IF ~whenNotPaused THEN "Paused"
    ELSE "ok"

\* Mutant: setCooldownSeconds without the zero check.
setCooldownResult_NoZeroCheck(sender, newCooldownSeconds) ==
    IF ~onlyOwner(sender) THEN "NotOwner" ELSE "ok"

setCooldownResult(sender, newCooldownSeconds) ==
    IF ~onlyOwner(sender) THEN "NotOwner"
    ELSE IF newCooldownSeconds = 0 THEN "InvalidCooldown"
    ELSE "ok"

\* Mutant: closeBatch without the "batch is open" check.
closeBatchResult_NoOpenCheck(sender, batchId) ==
    IF ~onlyOwner(sender) THEN "NotOwner"
    ELSE IF ~whenNotPaused THEN "Paused"
    ELSE "ok"

closeBatchResult(sender, batchId) ==
    IF ~onlyOwner(sender) THEN "NotOwner"
    ELSE IF ~whenNotPaused THEN "Paused"
    ELSE IF ~isBatchOpen[batchId] THEN "BatchClosed"
    ELSE "ok"

\* Mutant: submit without the "batch is open" check.
submitResult_NoOpenCheck(sender, batchId, dataPoints) ==
    IF ~onlyProvider(sender) THEN "NotProvider"
    ELSE IF ~whenNotPaused THEN "Paused"
    ELSE IF ~respectSubmissionCooldown(sender) THEN "CooldownActive"
    ELSE IF Len(dataPoints) = 0 THEN "EmptyBatch"
    ELSE "ok"

submitResult(sender, batchId, dataPoints) ==
    IF ~onlyProvider(sender) THEN "NotProvider"
    ELSE IF ~whenNotPaused THEN "Paused"
    ELSE IF ~respectSubmissionCooldown(sender) THEN "CooldownActive"
    ELSE IF ~isBatchOpen[batchId] THEN "BatchClosed"
    ELSE IF Len(dataPoints) = 0 THEN "EmptyBatch"
    ELSE "ok"

\* Mutant: requestResearchCalculation without the EmptyBatch check.
requestResult_NoEmptyCheck(sender, batchId) ==
    IF ~onlyProvider(sender) THEN "NotProvider"
    ELSE IF ~whenNotPaused THEN "Paused"
    ELSE IF ~respectDecryptionCooldown(sender) THEN "CooldownActive"
    ELSE "ok"

requestResult(sender, batchId) ==
    IF ~onlyProvider(sender) THEN "NotProvider"
    ELSE IF ~whenNotPaused THEN "Paused"
    ELSE IF ~respectDecryptionCooldown(sender) THEN "CooldownActive"
    ELSE IF batchSubmissionCount[batchId] = 0 THEN "EmptyBatch"
    ELSE "ok"

\* Mutant: the request sums the administrator's list, as the callback does.
requestedSum_Owner(batchId, sender) ==
    sumLoop(FHE_asEuint32_0, FALSE, batchGeneticData[batchId][owner])

\* The sum requestResearchCalculation asks the engine to decrypt: the caller's.
requestedSum(batchId, sender) ==
    sumLoop(FHE_asEuint32_0, FALSE, batchGeneticData[batchId][sender])

\* Mutant: the callback re-sums the data of the deployer, whoever owns now.
dataProvider_Deployer == Deployer

\* The provider whose data the callback re-sums.
dataProvider == owner

\* Mutant: the reconstruction reads no stored data and hashes encrypted zero.
_reconstructAndHashCleartextsForCallback_NoData(batchId) ==
    _hashCiphertexts(<<FHE_asEuint32_0>>)

_reconstructAndHashCleartextsForCallback(batchId) ==
    _hashCiphertexts(
        <<sumLoop(FHE_asEuint32_0, FALSE, batchGeneticData[batchId][dataProvider])>>)

\* Mutant: the callback without the replay check.
callbackResult_NoReplayCheck(requestId, proofOk) ==
    IF _reconstructAndHashCleartextsForCallback(decryptionContexts[requestId].batchId)
           # decryptionContexts[requestId].stateHash
    THEN "StateMismatch"
    ELSE IF ~proofOk THEN "InvalidProof"
    ELSE "ok"

\* Mutant: the callback without the fingerprint comparison.
callbackResult_NoStateCheck(requestId, proofOk) ==
    IF decryptionContexts[requestId].processed THEN "ReplayAttempt"
    ELSE IF ~proofOk THEN "InvalidProof"
    ELSE "ok"

\* Mutant: the callback verifies the proof before comparing fingerprints.
callbackResult_ProofFirst(requestId, proofOk) ==
    IF decryptionContexts[requestId].processed THEN "ReplayAttempt"
    ELSE IF ~proofOk THEN "InvalidProof"
    ELSE IF _reconstructAndHashCleartextsForCallback(decryptionContexts[requestId].batchId)
                # decryptionContexts[requestId].stateHash
         THEN "StateMismatch"
    ELSE "ok"

\* Mutant: the callback is refused while the system is paused.
callbackResult_PauseGated(requestId, proofOk) ==
    IF ~whenNotPaused THEN "Paused"
    ELSE IF decryptionContexts[requestId].processed THEN "ReplayAttempt"
    ELSE IF _reconstructAndHashCleartextsForCallback(decryptionContexts[requestId].batchId)
                # decryptionContexts[requestId].stateHash
         THEN "StateMismatch"
    ELSE IF ~proofOk THEN "InvalidProof"
    ELSE "ok"

\* Mutant: the callback without the proof check.
callbackResult_NoProofCheck(requestId, proofOk) ==
    IF decryptionContexts[requestId].processed THEN "ReplayAttempt"
    ELSE IF _reconstructAndHashCleartextsForCallback(decryptionContexts[requestId].batchId)
                # decryptionContexts[requestId].stateHash
         THEN "StateMismatch"
    ELSE "ok"

callbackResult(requestId, proofOk) ==
    IF decryptionContexts[requestId].processed THEN "ReplayAttempt"
    ELSE IF _reconstructAndHashCleartextsForCallback(decryptionContexts[requestId].batchId)
                # decryptionContexts[requestId].stateHash
         THEN "StateMismatch"
    ELSE IF ~proofOk THEN "InvalidProof"
    ELSE "ok"

\* lastSubmissionTime[msg.sender] once the call is over: the write of line 697
\* comes after every revert of the function, and a revert rolls back anyway.
\* Mutant: the write is coupled to passing the cooldown check, not to success.
submissionTimeAfter_Coupled(sender, batchId, dataPoints) ==
    IF submitResult(sender, batchId, dataPoints) \in {"ok", "BatchClosed", "EmptyBatch"}
    THEN blockTimestamp
    ELSE lastSubmissionTime[sender]

submissionTimeAfter(sender, batchId, dataPoints) ==
    IF submitResult(sender, batchId, dataPoints) = "ok"
    THEN blockTimestamp
    ELSE lastSubmissionTime[sender]

\* lastDecryptionRequestTime[msg.sender] once the call is over (line 718).
decryptionRequestTimeAfter(sender, batchId) ==
    IF requestResult(sender, batchId) = "ok"
    THEN blockTimestamp
    ELSE lastDecryptionRequestTime[sender]

\* Mutant: the engine hands out the same request id again.
FHE_requestDecryption_Reuse ==
    IF requestCounter = 0 THEN requestCounter ELSE requestCounter - 1

\* The engine returns a request id it has not returned before.
FHE_requestDecryption == requestCounter

\* Mutant: openBatch does not advance the batch id past the first one.
nextBatchId_Stuck ==
    IF currentBatchId = 0 THEN currentBatchId + 1 ELSE currentBatchId

\* currentBatchId++ : the id openBatch assigns.
nextBatchId == currentBatchId + 1

\* Mutant: addProvider flips the flag instead of setting it.
addProviderEffect_Toggle(flags, provider) ==
    [flags EXCEPT ![provider] = ~@]

\* The body of addProvider applied to a provider map: the flag is set, and
\* ProviderAdded emitted, only if it was not set.
addProviderEffect(flags, provider) ==
    IF ~flags[provider] THEN [flags EXCEPT ![provider] = TRUE] ELSE flags

addProviderEmits(flags, provider) == ~flags[provider]

\* The body of removeProvider applied to a provider map.
removeProviderEffect(flags, provider) ==
    IF flags[provider] THEN [flags EXCEPT ![provider] = FALSE] ELSE flags

removeProviderEmits(flags, provider) == flags[provider]

\* ----------------------------------------------------------------- actions
transferOwnership(sender, newOwner) ==
    LET result == AdminResult(sender) IN
    /\ result = "ok"
    /\ calls < MaxCalls
    /\ lastCall' = Call("transferOwnership", sender, newOwner, 0, 0, 0, <<>>, FALSE)
    /\ calls' = calls + 1
    /\ owner' = newOwner
    /\ UNCHANGED <<isProvider, paused, cooldownSeconds, lastSubmissionTime,
                   lastDecryptionRequestTime, currentBatchId, isBatchOpen,
                   batchSubmissionCount, batchGeneticData, decryptionContexts,
                   blockTimestamp, requestCounter, history>>

addProvider(sender, provider) ==
    LET result == AdminResult(sender) IN
    /\ result = "ok"
    /\ calls < MaxCalls
    /\ lastCall' = Call("addProvider", sender, provider, 0, 0, 0, <<>>, FALSE)
    /\ calls' = calls + 1
    /\ isProvider' = addProviderEffect(isProvider, provider)
    /\ UNCHANGED <<owner, paused, cooldownSeconds, lastSubmissionTime,
                   lastDecryptionRequestTime, currentBatchId, isBatchOpen,
                   batchSubmissionCount, batchGeneticData, decryptionContexts,
                   blockTimestamp, requestCounter, history>>

removeProvider(sender, provider) ==
    LET result == AdminResult(sender) IN
    /\ result = "ok"
    /\ calls < MaxCalls
    /\ lastCall' = Call("removeProvider", sender, provider, 0, 0, 0, <<>>, FALSE)
    /\ calls' = calls + 1
    /\ isProvider' = removeProviderEffect(isProvider, provider)
    /\ UNCHANGED <<owner, paused, cooldownSeconds, lastSubmissionTime,
                   lastDecryptionRequestTime, currentBatchId, isBatchOpen,
                   batchSubmissionCount, batchGeneticData, decryptionContexts,
                   blockTimestamp, requestCounter, history>>

pause(sender) ==
    LET result == AdminUnpausedResult(sender) IN
    /\ result = "ok"
    /\ calls < MaxCalls
    /\ lastCall' = Call("pause", sender, NoOne, 0, 0, 0, <<>>, FALSE)
    /\ calls' = calls + 1
    /\ paused' = TRUE
    /\ UNCHANGED <<owner, isProvider, cooldownSeconds, lastSubmissionTime,
                   lastDecryptionRequestTime, currentBatchId, isBatchOpen,
                   batchSubmissionCount, batchGeneticData, decryptionContexts,
                   blockTimestamp, requestCounter, history>>

unpause(sender) ==
    LET result == AdminResult(sender) IN
    /\ result = "ok"
    /\ calls < MaxCalls
    /\ lastCall' = Call("unpause", sender, NoOne, 0, 0, 0, <<>>, FALSE)
    /\ calls' = calls + 1
    /\ paused' = FALSE
    /\ UNCHANGED <<owner, isProvider, cooldownSeconds, lastSubmissionTime,
                   lastDecryptionRequestTime, currentBatchId, isBatchOpen,
                   batchSubmissionCount, batchGeneticData, decryptionContexts,
                   blockTimestamp, requestCounter, history>>

setCooldownSeconds(sender, newCooldownSeconds) ==
    LET result == setCooldownResult(sender, newCooldownSeconds) IN
    /\ result = "ok"
    /\ calls < MaxCalls
    /\ lastCall' = Call("setCooldownSeconds", sender, NoOne, newCooldownSeconds, 0, 0,
                      <<>>, FALSE)
    /\ calls' = calls + 1
    /\ cooldownSeconds' = newCooldownSeconds
    /\ UNCHANGED <<owner, isProvider, paused, lastSubmissionTime,
                   lastDecryptionRequestTime, currentBatchId, isBatchOpen,
                   batchSubmissionCount, batchGeneticData, decryptionContexts,
                   blockTimestamp, requestCounter, history>>

openBatch(sender) ==
    LET result == AdminUnpausedResult(sender) IN
    /\ currentBatchId < MaxBatch
    /\ result = "ok"
    /\ calls < MaxCalls
    /\ lastCall' = Call("openBatch", sender, NoOne, 0, nextBatchId, 0, <<>>, FALSE)
    /\ calls' = calls + 1
    /\ currentBatchId' = nextBatchId
    /\ isBatchOpen' = [isBatchOpen EXCEPT ![nextBatchId] = TRUE]
    /\ batchSubmissionCount' =
           [batchSubmissionCount EXCEPT ![nextBatchId] = 0]
    /\ UNCHANGED <<owner, isProvider, paused, cooldownSeconds,
                   lastSubmissionTime, lastDecryptionRequestTime,
                   batchGeneticData, decryptionContexts,
                   blockTimestamp, requestCounter, history>>

closeBatch(sender, batchId) ==
    LET result == closeBatchResult(sender, batchId) IN
    /\ result = "ok"
    /\ calls < MaxCalls
    /\ lastCall' = Call("closeBatch", sender, NoOne, 0, batchId, 0, <<>>, FALSE)
    /\ calls' = calls + 1
    /\ isBatchOpen' = [isBatchOpen EXCEPT ![batchId] = FALSE]
    /\ closedBatches' = closedBatches \cup {batchId}
    /\ UNCHANGED <<owner, isProvider, paused, cooldownSeconds,
                   lastSubmissionTime, lastDecryptionRequestTime,
                   currentBatchId, batchSubmissionCount, batchGeneticData,
                   decryptionContexts, blockTimestamp, requestCounter,
                   requester, requestedData, submitSince, completions,
                   submittedAt, requestedAt, adminAtRequest>>

submitEncryptedGeneticData(sender, batchId, dataPoints) ==
    LET result == submitResult(sender, batchId, dataPoints) IN
    /\ result = "ok"
    /\ calls < MaxCalls
    /\ lastCall' = Call("submitEncryptedGeneticData", sender, NoOne, 0, batchId, 0,
                      dataPoints, FALSE)
    /\ calls' = calls + 1
    /\ lastSubmissionTime' =
           [lastSubmissionTime EXCEPT ![sender] =
                submissionTimeAfter(sender, batchId, dataPoints)]
    /\ batchGeneticData' =
           [batchGeneticData EXCEPT ![batchId][sender] =
                overwriteDataPoints(@, dataPoints)]
    /\ batchSubmissionCount' =
           [batchSubmissionCount EXCEPT ![batchId] = @ + 1]
    /\ submitSince' = [r \in RequestIds |->
                          submitSince[r] \/ requester[r] # NoOne]
    /\ submittedAt' = [submittedAt EXCEPT ![sender] = blockTimestamp]
    /\ UNCHANGED <<owner, isProvider, paused, cooldownSeconds,
                   lastDecryptionRequestTime, currentBatchId, isBatchOpen,
                   decryptionContexts, blockTimestamp, requestCounter,
                   requester, requestedData, completions, closedBatches,
                   requestedAt, adminAtRequest>>

requestResearchCalculation(sender, batchId) ==
    LET result == requestResult(sender, batchId)
        requestId == FHE_requestDecryption
        cts == <<requestedSum(batchId, sender)>>
    IN
    /\ requestCounter < MaxRequests
    /\ result = "ok"
    /\ calls < MaxCalls
    /\ lastCall' = Call("requestResearchCalculation", sender, NoOne, 0, batchId,
                      requestId, <<>>, FALSE)
    /\ calls' = calls + 1
    /\ lastDecryptionRequestTime' =
           [lastDecryptionRequestTime EXCEPT ![sender] =
                decryptionRequestTimeAfter(sender, batchId)]
    /\ requestCounter' = requestCounter + 1
    /\ decryptionContexts' =
           [decryptionContexts EXCEPT ![requestId] =
                [batchId |-> batchId,
                 stateHash |-> _hashCiphertexts(cts),
                 processed |-> FALSE]]
    /\ requester' = [requester EXCEPT ![requestId] = sender]
    /\ requestedData' = [requestedData EXCEPT ![requestId] =
                             batchGeneticData[batchId][sender]]
    /\ requestedAt' = [requestedAt EXCEPT ![sender] = blockTimestamp]
    /\ adminAtRequest' = [adminAtRequest EXCEPT ![requestId] = owner]
    /\ UNCHANGED <<owner, isProvider, paused, cooldownSeconds,
                   lastSubmissionTime, currentBatchId, isBatchOpen,
                   batchSubmissionCount, batchGeneticData, blockTimestamp,
                   submitSince, completions, closedBatches, submittedAt>>

myCallback(sender, requestId, proofOk) ==
    LET result == callbackResult(requestId, proofOk) IN
    /\ result = "ok"
    /\ calls < MaxCalls
    /\ lastCall' = Call("myCallback", sender, NoOne, 0, 0, requestId, <<>>, proofOk)
    /\ calls' = calls + 1
    /\ decryptionContexts' =
           [decryptionContexts EXCEPT ![requestId].processed = TRUE]
    /\ completions' = [completions EXCEPT ![requestId] = @ + 1]
    /\ UNCHANGED <<owner, isProvider, paused, cooldownSeconds,
                   lastSubmissionTime, lastDecryptionRequestTime,
                   currentBatchId, isBatchOpen, batchSubmissionCount,
                   batchGeneticData, blockTimestamp, requestCounter,
                   requester, requestedData, submitSince, closedBatches,
                   submittedAt, requestedAt, adminAtRequest>>

\* A later block: the timestamp moves on, nothing else does.
Tick ==
    /\ blockTimestamp + TickStep <= MaxTime
    /\ blockTimestamp' = blockTimestamp + TickStep
    /\ UNCHANGED <<ledger, requestCounter, history, calls, lastCall>>

Next ==
    \/ \E sender \in Addresses, newOwner \in Addresses :
           transferOwnership(sender, newOwner)
    \/ \E sender \in Addresses, provider \in Addresses :
           addProvider(sender, provider)
    \/ \E sender \in Addresses, provider \in Addresses :
           removeProvider(sender, provider)
    \/ \E sender \in Addresses : pause(sender)
    \/ \E sender \in Addresses : unpause(sender)
    \/ \E sender \in Addresses, newCooldownSeconds \in CooldownInputs :
           setCooldownSeconds(sender, newCooldownSeconds)
    \/ \E sender \in Addresses : openBatch(sender)
    \/ \E sender \in Addresses, batchId \in BatchIds : closeBatch(sender, batchId)
    \/ \E sender \in Addresses, batchId \in BatchIds, dataPoints \in HandleLists :
           submitEncryptedGeneticData(sender, batchId, dataPoints)
    \/ \E sender \in Addresses, batchId \in BatchIds :
           requestResearchCalculation(sender, batchId)
    \/ \E sender \in Addresses, requestId \in RequestIds, proofOk \in BOOLEAN :
           myCallback(sender, requestId, proofOk)
    \/ Tick

Spec == Init /\ [][Next]_vars

\* ------------------------------------------------------------------ claims
SubmitErrors == {"NotProvider", "Paused", "CooldownActive", "BatchClosed", "EmptyBatch"}

AcceptedStep(op) == calls' = calls + 1 /\ lastCall'.op = op

Created(r) == requester[r] # NoOne

\* What _initIfNeeded is specified to yield, written out per position.
Normalized(h) == [i \in 1..Len(h) |-> IF h[i] = 0 THEN 1 ELSE h[i]]

\* The conditions of submit, read off the ledger.
SubmitConditions(p, b, h) ==
    /\ isProvider[p]
    /\ ~paused
    /\ blockTimestamp >= lastSubmissionTime[p] + cooldownSeconds
    /\ isBatchOpen[b]
    /\ Len(h) > 0

SubmitOutcomeMatches(p, b, h) ==
    \A r \in {submitResult(p, b, h)} :
        /\ r \in SubmitErrors \cup {"ok"}
        /\ (r = "ok") <=> SubmitConditions(p, b, h)
        /\ (r = "NotProvider") => ~isProvider[p]
        /\ (r = "Paused") => paused
        /\ (r = "CooldownActive") =>
               blockTimestamp < lastSubmissionTime[p] + cooldownSeconds
        /\ (r = "BatchClosed") => ~isBatchOpen[b]
        /\ (r = "EmptyBatch") => Len(h) = 0

\* C1: submit by P into B is accepted exactly when P is an authorized
\* provider, the system is not paused, P's submission cooldown has elapsed, B
\* is open and the handle list is non-empty; otherwise the outcome is the
\* error of a violated condition, and stored submissions, counters and
\* submission timestamps change only in a step that is such an accepted submit
\* (batches and requests are untouched by it).
C1_SubmitAcceptedIff ==
    [][ /\ \A p \in Addresses, b \in BatchIds, h \in HandleLists :
               SubmitOutcomeMatches(p, b, h)
        /\ (\/ batchGeneticData' # batchGeneticData
            \/ batchSubmissionCount' # batchSubmissionCount
            \/ lastSubmissionTime' # lastSubmissionTime)
           => /\ AcceptedStep("submitEncryptedGeneticData")
              /\ SubmitConditions(lastCall'.sender, lastCall'.batchId,
                                  lastCall'.dataPoints)
              /\ UNCHANGED <<isBatchOpen, currentBatchId, decryptionContexts,
                             lastDecryptionRequestTime>>
      ]_vars

\* C1 witness: a submit was just accepted and, its cooldown now running, the
\* same call repeated would be rejected with CooldownActive.
C1_Witness ==
    /\ lastCall.op = "submitEncryptedGeneticData"
    /\ submitResult(lastCall.sender, lastCall.batchId, lastCall.dataPoints)
           = "CooldownActive"

\* C2: once the requester P of a pending request on batch B has overwritten,
\* by a new accepted submit into B, the stored handles the request's aggregate
\* was computed from, every callback for the request is rejected with
\* StateMismatch (and so the request stays unprocessed).
C2_OverwriteRejected ==
    \A r \in RequestIds :
        (/\ Created(r)
         /\ completions[r] = 0
         /\ requestedData[r] # <<>>
         /\ submitSince[r]
         /\ batchGeneticData[decryptionContexts[r].batchId][requester[r]]
                # requestedData[r])
        => \A proofOk \in BOOLEAN : callbackResult(r, proofOk) = "StateMismatch"

\* C3: for any authorized provider A: after A's one-element submit into batch 1
\* (counter 1) and A's request R, with no submit since, R is recorded
\* unprocessed and a callback for R with a verifying proof is accepted.
C3_ProviderRoundTrip ==
    \A r \in RequestIds :
        (/\ Created(r)
         /\ decryptionContexts[r].batchId = 1
         /\ batchSubmissionCount[1] = 1
         /\ Len(batchGeneticData[1][requester[r]]) = 1
         /\ ~submitSince[r]
         /\ completions[r] = 0)
        => /\ ~decryptionContexts[r].processed
           /\ callbackResult(r, TRUE) = "ok"

\* C4: after a callback for request R has succeeded, every callback for R is
\* rejected with ReplayAttempt whatever its payload and whatever happened in
\* between, so at most one callback per request id ever succeeds.
C4_ReplayRejected ==
    \A r \in RequestIds :
        /\ completions[r] <= 1
        /\ completions[r] >= 1 =>
               \A proofOk \in BOOLEAN : callbackResult(r, proofOk) = "ReplayAttempt"

\* C4 witness: a request was completed and another call (a submit) has been
\* accepted since.
C4_Witness ==
    \E r \in RequestIds :
        /\ completions[r] = 1
        /\ lastCall.op = "submitEncryptedGeneticData"

\* C5: a request's processed flag becomes true only in a step that is an
\* accepted callback for that request, carrying a proof the engine verified,
\* taken when the request existed, was unprocessed and the fingerprint
\* re-derived from the ledger equalled the recorded one.
C5_ProcessedOnlyByCallback ==
    [][ \A r \in RequestIds :
            (~decryptionContexts[r].processed /\ decryptionContexts'[r].processed)
            => /\ AcceptedStep("myCallback")
               /\ lastCall'.requestId = r
               /\ lastCall'.proofOk
               /\ Created(r)
               /\ <<(<<sumLoop(EncryptedZero, FALSE,
                       batchGeneticData[decryptionContexts[r].batchId][owner])>>),
                    ContractAddress>> = decryptionContexts[r].stateHash
      ]_vars

\* C5 witness: a callback has just completed a request.
C5_Witness ==
    /\ lastCall.op = "myCallback"
    /\ decryptionContexts[lastCall.requestId].processed

\* C6: when provider A has submitted into an open batch and created request
\* R, a callback for R whose proof does not verify is rejected with
\* InvalidProof (and R stays unprocessed).
C6_TamperedRejected ==
    \A r \in RequestIds :
        (/\ Created(r)
         /\ Len(batchGeneticData[decryptionContexts[r].batchId][requester[r]]) > 0
         /\ ~submitSince[r]
         /\ completions[r] = 0)
        => /\ callbackResult(r, FALSE) = "InvalidProof"
           /\ ~decryptionContexts[r].processed

\* C7: a callback for a request id under which no request was ever created is
\* rejected with the replay error.
C7_UnknownIsReplay ==
    \A r \in RequestIds :
        ~Created(r) =>
            \A proofOk \in BOOLEAN : callbackResult(r, proofOk) = "ReplayAttempt"

NeverOpened(b) == b = 0 \/ b > currentBatchId

\* C8 (as stated): requestCalculation fails whenever the batch is not open.
C8_RequestNeedsOpenBatch ==
    \A p \in Addresses, b \in BatchIds :
        ~isBatchOpen[b] => requestResult(p, b) # "ok"

\* C8 (amended): requestCalculation fails with EmptyBatch, for a caller passing
\* the earlier checks, whenever the batch has no recorded submission, which
\* is the case of every batch id never opened; whether the batch is open plays
\* no part: a provider outside its cooldown is admitted on any batch with a
\* submission, closed ones included.
C8_RequestNeedsSubmission ==
    \A p \in Addresses, b \in BatchIds :
        /\ NeverOpened(b) => batchSubmissionCount[b] = 0
        /\ batchSubmissionCount[b] = 0 => requestResult(p, b) # "ok"
        /\ (/\ batchSubmissionCount[b] = 0
            /\ isProvider[p]
            /\ ~paused
            /\ blockTimestamp >= lastDecryptionRequestTime[p] + cooldownSeconds)
           => requestResult(p, b) = "EmptyBatch"
        /\ (/\ batchSubmissionCount[b] > 0
            /\ isProvider[p]
            /\ ~paused
            /\ blockTimestamp >= lastDecryptionRequestTime[p] + cooldownSeconds)
           => requestResult(p, b) = "ok"

\* C8 witness: a request was accepted on a batch that had been closed.
C8_Witness ==
    /\ lastCall.op = "requestResearchCalculation"
    /\ lastCall.batchId \in closedBatches
    /\ ~isBatchOpen[lastCall.batchId]
    /\ batchSubmissionCount[lastCall.batchId] > 0

\* C9: once closeBatch(B) has succeeded B is never open again: no later step
\* (openBatch included) opens it, a further closeBatch(B) by the administrator
\* is rejected with BatchClosed, and no submit into B is accepted.
C9_ClosedStaysClosed ==
    \A b \in closedBatches :
        /\ ~isBatchOpen[b]
        /\ \A p \in Addresses :
               /\ closeBatchResult(p, b) # "ok"
               /\ (p = owner /\ ~paused) => closeBatchResult(p, b) = "BatchClosed"
               /\ \A h \in HandleLists : submitResult(p, b, h) # "ok"

\* C9 witness: a batch was closed and openBatch has been called since.
C9_Witness ==
    /\ lastCall.op = "openBatch"
    /\ \E b \in closedBatches : b < currentBatchId /\ ~isBatchOpen[b]

\* C10: an accepted submit leaves exactly the normalised new list, in order,
\* as the sender's stored list for the batch (nothing of an earlier list
\* remains), and raises the batch's submission counter by exactly 1, also
\* when it replaces an earlier submission.
C10_SubmitReplaces ==
    [][ AcceptedStep("submitEncryptedGeneticData") =>
            LET b == lastCall'.batchId
                p == lastCall'.sender
            IN /\ batchGeneticData'[b][p] = Normalized(lastCall'.dataPoints)
               /\ batchSubmissionCount'[b] = batchSubmissionCount[b] + 1
               /\ \A c \in BatchIds, q \in Addresses :
                      <<c, q>> # <<b, p>> =>
                          batchGeneticData'[c][q] = batchGeneticData[c][q]
      ]_vars

\* C10 witness: the second accepted submit of one provider into a batch (the
\* counter is 2 and nobody else has stored data there), with a shorter list
\* than a two-element earlier one could leave behind.
C10_Witness ==
    /\ lastCall.op = "submitEncryptedGeneticData"
    /\ batchSubmissionCount[lastCall.batchId] = 2
    /\ \A q \in Addresses \ {lastCall.sender} :
           batchGeneticData[lastCall.batchId][q] = <<>>
    /\ Len(lastCall.dataPoints) = 1
    /\ lastCall.dataPoints[1] = Uninitialized
    /\ batchGeneticData[lastCall.batchId][lastCall.sender] = <<EncryptedZero>>

\* The conditions of requestCalculation, read off the ledger.
RequestConditions(p, b) ==
    /\ isProvider[p]
    /\ ~paused
    /\ blockTimestamp >= lastDecryptionRequestTime[p] + cooldownSeconds
    /\ batchSubmissionCount[b] >= 1

\* C11: after an identity's accepted submit (respectively requestCalculation)
\* at time t, a further call of the same class by that identity at a time now
\* with now < t + cooldownSeconds is never accepted, and is rejected with
\* CooldownActive once the identity passes the authorization and pause
\* checks that precede the cooldown check; at exactly now = t + cooldownSeconds
\* the call passes the cooldown check and is accepted when its remaining
\* conditions hold.
C11_CooldownBoundary ==
    \A p \in Addresses :
        /\ (submittedAt[p] # 0 /\ blockTimestamp < submittedAt[p] + cooldownSeconds)
           => \A b \in BatchIds, h \in HandleLists :
                  /\ submitResult(p, b, h) # "ok"
                  /\ (isProvider[p] /\ ~paused)
                     => submitResult(p, b, h) = "CooldownActive"
        /\ (submittedAt[p] # 0 /\ blockTimestamp = submittedAt[p] + cooldownSeconds)
           => \A b \in BatchIds, h \in HandleLists :
                  /\ submitResult(p, b, h) # "CooldownActive"
                  /\ (isProvider[p] /\ ~paused /\ isBatchOpen[b] /\ Len(h) > 0)
                     => submitResult(p, b, h) = "ok"
        /\ (requestedAt[p] # 0 /\ blockTimestamp < requestedAt[p] + cooldownSeconds)
           => \A b \in BatchIds :
                  /\ requestResult(p, b) # "ok"
                  /\ (isProvider[p] /\ ~paused)
                     => requestResult(p, b) = "CooldownActive"
        /\ (requestedAt[p] # 0 /\ blockTimestamp = requestedAt[p] + cooldownSeconds)
           => \A b \in BatchIds :
                  /\ requestResult(p, b) # "CooldownActive"
                  /\ (isProvider[p] /\ ~paused /\ batchSubmissionCount[b] >= 1)
                     => requestResult(p, b) = "ok"

\* C11 witness: the five accepted calls were openBatch, two submits and two
\* requests by one provider under the default cooldown; its second submit
\* and its second request were both accepted at exactly the boundary instant.
C11_Witness ==
    /\ lastCall.op = "requestResearchCalculation"
    /\ calls = 5
    /\ currentBatchId = 1
    /\ batchSubmissionCount[1] = 2
    /\ requestCounter = 2
    /\ \A q \in Addresses \ {lastCall.sender} : batchGeneticData[1][q] = <<>>
    /\ requester[0] = lastCall.sender
    /\ requester[1] = lastCall.sender
    /\ cooldownSeconds = DefaultCooldown
    /\ blockTimestamp = StartTime + DefaultCooldown
    /\ submittedAt[lastCall.sender] = blockTimestamp
    /\ requestedAt[lastCall.sender] = blockTimestamp

\* C12 (as stated): a submit or requestCalculation call that passes the
\* cooldown check and is then rejected for another reason (batch not open,
\* empty handle list, batch without submissions) leaves the caller's
\* rate-limit timestamp of that class equal to now.
C12_TimestampOnRejection ==
    \A p \in Addresses, b \in BatchIds :
        /\ \A h \in HandleLists :
               submitResult(p, b, h) \in {"BatchClosed", "EmptyBatch"}
               => submissionTimeAfter(p, b, h) = blockTimestamp
        /\ requestResult(p, b) = "EmptyBatch"
           => decryptionRequestTimeAfter(p, b) = blockTimestamp

\* C12 (amended): such a rejected call leaves the caller's rate-limit
\* timestamp as it was; the timestamp of a class is written by accepted calls
\* of that class only, so it always is the time of the caller's last accepted
\* call of the class (0 if there was none).
C12_TimestampOnlyOnSuccess ==
    \A p \in Addresses, b \in BatchIds :
        /\ lastSubmissionTime[p] = submittedAt[p]
        /\ lastDecryptionRequestTime[p] = requestedAt[p]
        /\ \A h \in HandleLists :
               /\ submitResult(p, b, h) \in {"BatchClosed", "EmptyBatch"}
                  => submissionTimeAfter(p, b, h) = submittedAt[p]
               /\ submitResult(p, b, h) = "ok"
                  => submissionTimeAfter(p, b, h) = blockTimestamp
        /\ requestResult(p, b) = "EmptyBatch"
           => decryptionRequestTimeAfter(p, b) = requestedAt[p]
        /\ requestResult(p, b) = "ok"
           => decryptionRequestTimeAfter(p, b) = blockTimestamp

\* C12 witness: a provider whose earlier submit was accepted is past its
\* cooldown; its submit of an empty list into an open batch passes the
\* cooldown check and is rejected with EmptyBatch, and its request on a batch
\* without submissions passes it and is rejected with EmptyBatch.
C12_Witness ==
    \E p \in Addresses, b \in BatchIds, c \in BatchIds :
        /\ submittedAt[p] # 0
        /\ requestedAt[p] # 0
        /\ submittedAt[p] < blockTimestamp
        /\ requestedAt[p] < blockTimestamp
        /\ isBatchOpen[b]
        /\ submitResult(p, b, <<>>) = "EmptyBatch"
        /\ requestResult(p, c) = "EmptyBatch"

\* The aggregate of a handle list as specified: a left-to-right fold with
\* the engine's add, seeded with the first element; encrypted zero if empty.
RECURSIVE FoldLeft(_, _)
FoldLeft(h, n) ==
    IF n = 1 THEN h[1] ELSE FHE_add(FoldLeft(h, n - 1), h[n])

Aggregate(h) == IF Len(h) = 0 THEN EncryptedZero ELSE FoldLeft(h, Len(h))

\* The administrator's aggregate for the batch of request r differs from the
\* aggregate the request recorded.
AdminAggregateDiffers(r) ==
    Aggregate(batchGeneticData[decryptionContexts[r].batchId][owner])
        # Aggregate(requestedData[r])

\* C13: the callback compares the recorded fingerprint with the one of the
\* administrator's stored data, not the requester's: whenever a created,
\* unprocessed request (of a provider that is not the administrator, or of
\* anyone) finds the administrator's aggregate for its batch different from
\* its recorded aggregate, every callback for it, valid proof or not, is
\* rejected with StateMismatch, and no step taken from such a state makes it
\* processed; so it stays unprocessed for as long as the difference lasts.
C13_StuckOnAdminMismatch ==
    [][ \A r \in RequestIds :
            (/\ Created(r)
             /\ ~decryptionContexts[r].processed
             /\ AdminAggregateDiffers(r))
            => /\ \A proofOk \in BOOLEAN :
                      callbackResult(r, proofOk) = "StateMismatch"
               /\ ~decryptionContexts'[r].processed
      ]_vars

\* C13 witness: a provider that is not the administrator requested the sum
\* of its own stored handles, the administrator's aggregate for the batch is
\* another one, time has passed, and a callback with a valid proof is rejected
\* with StateMismatch.
C13_Witness ==
    \E r \in RequestIds :
        /\ Created(r)
        /\ requester[r] # owner
        /\ requestedData[r] # <<>>
        /\ batchGeneticData[decryptionContexts[r].batchId][requester[r]]
               = requestedData[r]
        /\ AdminAggregateDiffers(r)
        /\ blockTimestamp > requestedAt[requester[r]]
        /\ callbackResult(r, TRUE) = "StateMismatch"

\* C14: a request record, once created, is never deleted and its batchId
\* and fingerprint never change; its processed flag only goes from false to
\* true, and only in a step that is an accepted callback for that request;
\* and a record comes into being only in an accepted requestCalculation that
\* was given its id.
C14_RecordImmutable ==
    [][ \A r \in RequestIds :
            /\ Created(r) =>
                   /\ Created(r)'
                   /\ decryptionContexts'[r].stateHash # Bytes32Zero
                   /\ decryptionContexts'[r].batchId = decryptionContexts[r].batchId
                   /\ decryptionContexts'[r].stateHash = decryptionContexts[r].stateHash
                   /\ decryptionContexts[r].processed => decryptionContexts'[r].processed
                   /\ decryptionContexts'[r].processed # decryptionContexts[r].processed
                      => /\ AcceptedStep("myCallback")
                         /\ lastCall'.requestId = r
            /\ (~Created(r) /\ decryptionContexts'[r] # decryptionContexts[r])
               => /\ AcceptedStep("requestResearchCalculation")
                  /\ lastCall'.requestId = r
                  /\ ~decryptionContexts'[r].processed
      ]_vars

\* C14 witness: one request was completed by its callback, and a further
\* request has been created since; both records exist.
C14_Witness ==
    \E r \in RequestIds :
        /\ Created(r)
        /\ decryptionContexts[r].processed
        /\ lastCall.op = "requestResearchCalculation"
        /\ lastCall.requestId # r
        /\ ~decryptionContexts[lastCall.requestId].processed

\* C15: requestCalculation(batchId) by P is accepted exactly when P is
\* authorized, the system is unpaused, P's decryption cooldown has elapsed and
\* the batch's submission counter is at least 1; an accepted one records,
\* under an id that held no request before, exactly one new record with that
\* batchId, processed = false and the fingerprint of P's own left-to-right
\* aggregate of its stored handles for the batch, touches no other record
\* and changes no stored submission, counter or batch state.
C15_RequestRecordsOwnAggregate ==
    [][ /\ \A p \in Addresses, b \in BatchIds :
               (requestResult(p, b) = "ok") <=> RequestConditions(p, b)
        /\ AcceptedStep("requestResearchCalculation") =>
               LET p == lastCall'.sender
                   b == lastCall'.batchId
                   r == lastCall'.requestId
               IN /\ RequestConditions(p, b)
                  /\ ~Created(r)
                  /\ decryptionContexts[r] = EmptyContext
                  /\ decryptionContexts'[r] =
                         [batchId |-> b,
                          stateHash |-> <<(<<Aggregate(batchGeneticData[b][p])>>),
                                         ContractAddress>>,
                          processed |-> FALSE]
                  /\ \A q \in RequestIds \ {r} :
                         decryptionContexts'[q] = decryptionContexts[q]
                  /\ UNCHANGED <<batchGeneticData, batchSubmissionCount,
                                 isBatchOpen, currentBatchId, lastSubmissionTime>>
      ]_vars

\* C15 witness: a provider that is not the administrator has just had its
\* request accepted on a batch where it stores two handles, which are not the
\* administrator's.
C15_Witness ==
    /\ lastCall.op = "requestResearchCalculation"
    /\ lastCall.sender # owner
    /\ requestedAt[lastCall.sender] = blockTimestamp
    /\ Len(batchGeneticData[lastCall.batchId][lastCall.sender]) = 2
    /\ batchGeneticData[lastCall.batchId][owner]
           # batchGeneticData[lastCall.batchId][lastCall.sender]
    /\ decryptionContexts[lastCall.requestId].batchId = lastCall.batchId
    /\ ~decryptionContexts[lastCall.requestId].processed

AdminOps == {"transferOwnership", "addProvider", "removeProvider", "pause",
             "unpause", "setCooldownSeconds", "openBatch", "closeBatch"}

\* C16: a call of transferOwnership, addProvider, removeProvider, unpause
\* (outcome AdminResult), pause, openBatch (AdminUnpausedResult),
\* setCooldownSeconds or closeBatch by anyone but the current administrator is
\* rejected with NotOwner whatever its arguments; and the administrator, the
\* provider set, the pause flag, the cooldown value, the open flags and the
\* current batch id change only in a step that is an accepted call of one of
\* these functions made by the administrator of the moment.
C16_AdminOnly ==
    [][ /\ \A p \in Addresses \ {owner} :
               /\ AdminResult(p) = "NotOwner"
               /\ AdminUnpausedResult(p) = "NotOwner"
               /\ \A v \in CooldownInputs : setCooldownResult(p, v) = "NotOwner"
               /\ \A b \in BatchIds : closeBatchResult(p, b) = "NotOwner"
        /\ (\/ owner' # owner
            \/ isProvider' # isProvider
            \/ paused' # paused
            \/ cooldownSeconds' # cooldownSeconds
            \/ isBatchOpen' # isBatchOpen
            \/ currentBatchId' # currentBatchId)
           => /\ calls' = calls + 1
              /\ lastCall'.op \in AdminOps
              /\ lastCall'.sender = owner
      ]_vars

\* C16 witness: the administrator handed the role to someone else; it is no
\* longer the administrator and its own administrative calls are now rejected
\* with NotOwner.
C16_Witness ==
    /\ lastCall.op = "transferOwnership"
    /\ lastCall.sender # owner
    /\ lastCall.target = owner
    /\ AdminResult(lastCall.sender) = "NotOwner"
    /\ \A b \in BatchIds : closeBatchResult(lastCall.sender, b) = "NotOwner"

\* C17: while the system is paused no openBatch, closeBatch, submit or
\* requestCalculation call is accepted, whoever makes it and whatever its
\* arguments, and the outcome is Paused when the caller passes the
\* authorization check of the function; no step taken while paused changes a
\* batch, a stored submission, a counter or a rate-limit timestamp, or creates
\* a request.  An accepted unpause clears the flag, and while the flag is
\* clear each of the four calls is accepted whenever its other conditions
\* hold.
C17_PausedBlocks ==
    [][ /\ paused =>
               /\ \A p \in Addresses :
                      /\ AdminUnpausedResult(p) # "ok"
                      /\ (p = owner) => AdminUnpausedResult(p) = "Paused"
               /\ \A p \in Addresses, b \in BatchIds :
                      /\ closeBatchResult(p, b) # "ok"
                      /\ (p = owner) => closeBatchResult(p, b) = "Paused"
                      /\ requestResult(p, b) # "ok"
                      /\ isProvider[p] => requestResult(p, b) = "Paused"
                      /\ \A h \in HandleLists :
                             /\ submitResult(p, b, h) # "ok"
                             /\ isProvider[p] => submitResult(p, b, h) = "Paused"
               /\ UNCHANGED <<currentBatchId, isBatchOpen, batchSubmissionCount,
                              batchGeneticData, lastSubmissionTime,
                              lastDecryptionRequestTime, requestCounter, requester>>
        /\ AcceptedStep("unpause") => ~paused'
        /\ ~paused =>
               /\ AdminUnpausedResult(owner) = "ok"
               /\ \A b \in BatchIds :
                      isBatchOpen[b] => closeBatchResult(owner, b) = "ok"
               /\ \A p \in Addresses, b \in BatchIds :
                      /\ RequestConditions(p, b) => requestResult(p, b) = "ok"
                      /\ \A h \in HandleLists :
                             SubmitConditions(p, b, h) => submitResult(p, b, h) = "ok"
      ]_vars

\* C17 witness: the administrator has just paused the system and time has
\* passed; an open batch holds a submission of a provider now outside its
\* cooldown, and the provider's submit and request, and the administrator's
\* openBatch and closeBatch, which would all be accepted otherwise, are
\* rejected with Paused.
C17_Witness ==
    /\ paused
    /\ lastCall.op = "pause"
    /\ \E p \in Addresses, b \in BatchIds :
           /\ isProvider[p]
           /\ isBatchOpen[b]
           /\ batchSubmissionCount[b] >= 1
           /\ submittedAt[p] # 0
           /\ blockTimestamp >= submittedAt[p] + cooldownSeconds
           /\ blockTimestamp >= requestedAt[p] + cooldownSeconds
           /\ submitResult(p, b, <<Ciphertext>>) = "Paused"
           /\ requestResult(p, b) = "Paused"
           /\ closeBatchResult(owner, b) = "Paused"
           /\ AdminUnpausedResult(owner) = "Paused"

\* C18: the current batch id never decreases and changes only in an
\* accepted openBatch; each accepted openBatch sets it to exactly the previous
\* value plus 1, an id that was never open or closed before and holds no
\* submission, marks that id open with submission counter 0, and leaves every
\* other batch as it was.
C18_BatchIdsNeverReused ==
    [][ /\ currentBatchId' >= currentBatchId
        /\ currentBatchId' # currentBatchId => AcceptedStep("openBatch")
        /\ AcceptedStep("openBatch") =>
               /\ currentBatchId' = currentBatchId + 1
               /\ lastCall'.batchId = currentBatchId'
               /\ ~isBatchOpen[currentBatchId']
               /\ currentBatchId' \notin closedBatches
               /\ \A p \in Addresses : batchGeneticData[currentBatchId'][p] = <<>>
               /\ isBatchOpen'[currentBatchId']
               /\ batchSubmissionCount'[currentBatchId'] = 0
               /\ \A b \in BatchIds \ {currentBatchId'} :
                      /\ isBatchOpen'[b] = isBatchOpen[b]
                      /\ batchSubmissionCount'[b] = batchSubmissionCount[b]
      ]_vars

\* C18 witness: the second openBatch has just been accepted; batch 1 is still
\* open and holds a submission, batch 2 is open with counter 0.
C18_Witness ==
    /\ lastCall.op = "openBatch"
    /\ lastCall.batchId = 2
    /\ currentBatchId = 2
    /\ isBatchOpen[1]
    /\ batchSubmissionCount[1] >= 1
    /\ isBatchOpen[2]
    /\ batchSubmissionCount[2] = 0

\* C19: once closeBatch(B) has been accepted, no step changes B's submission
\* counter any more; the closing step itself leaves it as it is.
C19_ClosedCountFinal ==
    [][ /\ \A b \in closedBatches :
               batchSubmissionCount'[b] = batchSubmissionCount[b]
        /\ AcceptedStep("closeBatch") =>
               /\ lastCall'.batchId \in closedBatches'
               /\ batchSubmissionCount'[lastCall'.batchId]
                      = batchSubmissionCount[lastCall'.batchId]
      ]_vars

\* C19 witness: a batch was closed with submissions in it, and a submit into
\* another batch has been accepted since.
C19_Witness ==
    /\ lastCall.op = "submitEncryptedGeneticData"
    /\ \E b \in closedBatches :
           /\ b # lastCall.batchId
           /\ ~isBatchOpen[b]
           /\ batchSubmissionCount[b] >= 1

\* C20: the cooldown value is never 0: setCooldownSeconds(0) by the
\* administrator is rejected with InvalidCooldown, setCooldownSeconds(v) with
\* v # 0 by the administrator is accepted, and right after an accepted
\* setCooldownSeconds the cooldown value is the non-zero value it was given.
C20_ZeroCooldownRejected ==
    /\ cooldownSeconds # 0
    /\ setCooldownResult(owner, 0) = "InvalidCooldown"
    /\ \A v \in CooldownInputs \ {0} : setCooldownResult(owner, v) = "ok"
    /\ lastCall.op = "setCooldownSeconds" =>
           /\ lastCall.value # 0
           /\ cooldownSeconds = lastCall.value

\* C20 witness: the administrator has just set a cooldown other than the
\* default, and would be refused the value 0.
C20_Witness ==
    /\ lastCall.op = "setCooldownSeconds"
    /\ lastCall.sender = owner
    /\ cooldownSeconds = TickStep
    /\ cooldownSeconds # DefaultCooldown
    /\ setCooldownResult(owner, 0) = "InvalidCooldown"

\* C21: rate limiting is per identity and per class: an identity's
\* last-submission time is the time of its own last accepted submit and its
\* last-decryption-request time that of its own last accepted request (calls
\* of others, or of the other class, never write them), so a submit of Y is
\* rejected with CooldownActive only inside the window of Y's own last
\* accepted submit, and a request of Y only inside the window of Y's own last
\* accepted request.
C21_CooldownSlotsIndependent ==
    \A y \in Addresses :
        /\ lastSubmissionTime[y] = submittedAt[y]
        /\ lastDecryptionRequestTime[y] = requestedAt[y]
        /\ \A b \in BatchIds :
               /\ \A h \in HandleLists :
                      submitResult(y, b, h) = "CooldownActive"
                      => /\ submittedAt[y] # 0
                         /\ blockTimestamp < submittedAt[y] + cooldownSeconds
               /\ requestResult(y, b) = "CooldownActive"
                  => /\ requestedAt[y] # 0
                     /\ blockTimestamp < requestedAt[y] + cooldownSeconds

\* C21 witness: X has just had a submit accepted and is inside its submission
\* cooldown; its own request, and the submit of another provider Y, are
\* accepted all the same.
C21_Witness ==
    /\ lastCall.op = "submitEncryptedGeneticData"
    /\ submittedAt[lastCall.sender] = blockTimestamp
    /\ submitResult(lastCall.sender, lastCall.batchId, <<Ciphertext>>) = "CooldownActive"
    /\ requestResult(lastCall.sender, lastCall.batchId) = "ok"
    /\ \E y \in Addresses \ {lastCall.sender} :
           /\ submitResult(y, lastCall.batchId, <<Ciphertext>>) = "ok"
           /\ requestResult(y, lastCall.batchId) = "ok"

\* C22: addProvider on an already-authorized id and removeProvider on a
\* non-authorized id leave the provider map as it is and emit no event;
\* applying either a second time in a row gives the map the first application
\* gave, without an event; right after an accepted addProvider (respectively
\* removeProvider) the id is authorized (respectively not authorized).
C22_ProviderOpsIdempotent ==
    /\ \A id \in Addresses :
           /\ isProvider[id] =>
                  /\ addProviderEffect(isProvider, id) = isProvider
                  /\ ~addProviderEmits(isProvider, id)
           /\ ~isProvider[id] =>
                  /\ removeProviderEffect(isProvider, id) = isProvider
                  /\ ~removeProviderEmits(isProvider, id)
           /\ addProviderEffect(addProviderEffect(isProvider, id), id)
                  = addProviderEffect(isProvider, id)
           /\ ~addProviderEmits(addProviderEffect(isProvider, id), id)
           /\ removeProviderEffect(removeProviderEffect(isProvider, id), id)
                  = removeProviderEffect(isProvider, id)
           /\ ~removeProviderEmits(removeProviderEffect(isProvider, id), id)
    /\ lastCall.op = "addProvider" =>
           /\ isProvider[lastCall.target]
           /\ addProviderEffect(isProvider, lastCall.target) = isProvider
    /\ lastCall.op = "removeProvider" =>
           /\ ~isProvider[lastCall.target]
           /\ removeProviderEffect(isProvider, lastCall.target) = isProvider

\* C22 witness: the first call after deployment was addProvider on the
\* deployer, who is a provider from the start: the call was accepted and the
\* provider map is the initial one.
C22_Witness ==
    /\ calls = 1
    /\ lastCall.op = "addProvider"
    /\ lastCall.target = Deployer
    /\ isProvider = [a \in Addresses |-> a = Deployer]
    /\ owner = Deployer

\* C23: the callback checks replay, then fingerprint, then proof: for a
\* processed request every callback is rejected with ReplayAttempt whatever
\* the fingerprint and the proof; for an unprocessed request whose re-derived
\* fingerprint does not match, the rejection is StateMismatch also when the
\* proof does not verify; only with a matching fingerprint does a bad proof
\* give InvalidProof.
C23_CheckOrder ==
    \A r \in RequestIds :
        /\ decryptionContexts[r].processed =>
               \A proofOk \in BOOLEAN : callbackResult(r, proofOk) = "ReplayAttempt"
        /\ (Created(r) /\ ~decryptionContexts[r].processed /\ AdminAggregateDiffers(r))
           => \A proofOk \in BOOLEAN : callbackResult(r, proofOk) = "StateMismatch"
        /\ (Created(r) /\ ~decryptionContexts[r].processed /\ ~AdminAggregateDiffers(r))
           => callbackResult(r, FALSE) = "InvalidProof"

\* C23 witness: the administrator requested the sum of its own handles and
\* has since replaced them by a submit; the request is unprocessed, its
\* fingerprint no longer matches, and a callback whose proof does not verify
\* is rejected with StateMismatch.
C23_Witness ==
    \E r \in RequestIds :
        /\ Created(r)
        /\ requester[r] = owner
        /\ adminAtRequest[r] = owner
        /\ lastCall.op = "submitEncryptedGeneticData"
        /\ lastCall.sender = owner
        /\ lastCall.batchId = decryptionContexts[r].batchId
        /\ ~decryptionContexts[r].processed
        /\ AdminAggregateDiffers(r)
        /\ callbackResult(r, FALSE) = "StateMismatch"

\* C24: right after a callback has completed a request for batch B, the
\* request's recorded fingerprint is the hash of the aggregate of the handles
\* stored for (B, the administrator of that moment), whoever created the
\* request; and for every created, unprocessed request, of the administrator
\* or of any other provider, a callback is accepted exactly when the recorded
\* aggregate coincides with the current administrator's aggregate for B and
\* the proof verifies.
C24_CompletesOnAdminAggregate ==
    /\ lastCall.op = "myCallback" =>
           /\ lastCall.proofOk
           /\ decryptionContexts[lastCall.requestId].processed
           /\ decryptionContexts[lastCall.requestId].stateHash =
                  <<(<<Aggregate(batchGeneticData
                          [decryptionContexts[lastCall.requestId].batchId][owner])>>),
                    ContractAddress>>
    /\ \A r \in RequestIds, proofOk \in BOOLEAN :
           (Created(r) /\ ~decryptionContexts[r].processed)
           => ((callbackResult(r, proofOk) = "ok")
               <=> (proofOk /\ ~AdminAggregateDiffers(r)))

\* C24 witness: a callback has just completed the request of a provider that
\* is not the administrator and that summed its own stored handles; the
\* administrator's stored list for the batch is another list with the same
\* aggregate.
C24_Witness ==
    /\ lastCall.op = "myCallback"
    /\ decryptionContexts[lastCall.requestId].processed
    /\ requester[lastCall.requestId] # owner
    /\ requestedData[lastCall.requestId] # <<>>
    /\ batchGeneticData[decryptionContexts[lastCall.requestId].batchId][owner]
           # requestedData[lastCall.requestId]

\* C25: the callback reconstructs with the administrator of callback time:
\* when the administrator created a request on its own data, no submit was
\* accepted since, and the administrator role has moved to an identity whose
\* aggregate for the batch differs, a callback with a valid proof is rejected
\* with StateMismatch, although the data of the administrator of request time
\* still has the recorded aggregate.
C25_AdminOfCallbackTime ==
    \A r \in RequestIds :
        (/\ Created(r)
         /\ adminAtRequest[r] = requester[r]
         /\ owner # requester[r]
         /\ ~submitSince[r]
         /\ ~decryptionContexts[r].processed
         /\ AdminAggregateDiffers(r))
        => /\ callbackResult(r, TRUE) = "StateMismatch"
           /\ Aggregate(batchGeneticData[decryptionContexts[r].batchId]
                                        [adminAtRequest[r]])
                  = Aggregate(requestedData[r])

\* C25 witness: the administrator requested the sum of its own stored
\* handles and then transferred the role; nothing was submitted since, and a
\* callback with a valid proof is rejected with StateMismatch.
C25_Witness ==
    \E r \in RequestIds :
        /\ lastCall.op = "transferOwnership"
        /\ lastCall.sender = requester[r]
        /\ lastCall.target = owner
        /\ adminAtRequest[r] = requester[r]
        /\ owner # requester[r]
        /\ requestedData[r] # <<>>
        /\ ~submitSince[r]
        /\ ~decryptionContexts[r].processed
        /\ callbackResult(r, TRUE) = "StateMismatch"

\* C26: the callback looks at neither the pause flag, the batch's open
\* flag, the requester's provider flag nor its caller: a created, unprocessed
\* request whose fingerprint check passes is completed by a callback with a
\* verifying proof also when the system is paused, its batch is closed or its
\* requester is no longer a provider; and the outcome does not depend on who
\* calls.
C26_CallbackUngated ==
    \A r \in RequestIds :
        (/\ Created(r)
         /\ ~decryptionContexts[r].processed
         /\ ~AdminAggregateDiffers(r)
         /\ (\/ paused
             \/ ~isBatchOpen[decryptionContexts[r].batchId]
             \/ ~isProvider[requester[r]]))
        => callbackResult(r, TRUE) = "ok"

\* C26 witness: the system was paused after the request was made, and a
\* callback sent by an identity that is neither the requester nor a provider
\* has just completed the request.
C26_Witness ==
    /\ lastCall.op = "myCallback"
    /\ paused
    /\ lastCall.sender # requester[lastCall.requestId]
    /\ ~isProvider[lastCall.sender]
    /\ lastCall.sender # owner
    /\ decryptionContexts[lastCall.requestId].processed

\* C27: the cooldown value is at least 1 in every reachable state, so a
\* submit (respectively a request) that is accepted now carries a timestamp
\* strictly later than the sender's previous accepted submit (respectively
\* request): no two accepted calls of one class by one identity share a
\* timestamp.
C27_CooldownPositive ==
    /\ cooldownSeconds >= 1
    /\ \A p \in Addresses, b \in BatchIds :
           /\ \A h \in HandleLists :
                  submitResult(p, b, h) = "ok" => blockTimestamp > submittedAt[p]
           /\ requestResult(p, b) = "ok" => blockTimestamp > requestedAt[p]

\* C27 witness: with the smallest cooldown the inputs offer, the four accepted
\* calls were setCooldownSeconds, openBatch and two submits of one provider,
\* the second one a tick after the first; a third one now would be refused.
C27_Witness ==
    /\ lastCall.op = "submitEncryptedGeneticData"
    /\ calls = 4
    /\ cooldownSeconds = TickStep
    /\ currentBatchId = 1
    /\ batchSubmissionCount[1] = 2
    /\ \A q \in Addresses \ {lastCall.sender} : batchGeneticData[1][q] = <<>>
    /\ blockTimestamp = StartTime + TickStep
    /\ submittedAt[lastCall.sender] = blockTimestamp
    /\ submitResult(lastCall.sender, 1, lastCall.dataPoints) = "CooldownActive"

\* C28: a batch id that is open, or has a non-zero submission counter, or
\* holds a non-empty stored list of some provider, or was closed, lies between
\* 1 and the current batch id: batch 0 and the ids above the current one are
\* never open and never hold anything.
C28_BatchIdsInRange ==
    \A b \in BatchIds :
        (\/ isBatchOpen[b]
         \/ batchSubmissionCount[b] # 0
         \/ \E p \in Addresses : batchGeneticData[b][p] # <<>>
         \/ b \in closedBatches)
        => (1 <= b /\ b <= currentBatchId)

\* C28 witness: batch 1 is the current batch, open and holding a submission;
\* a provider outside its cooldown is refused, with BatchClosed, a submit into
\* batch 0 and into the id above the current one.
C28_Witness ==
    /\ currentBatchId = 1
    /\ isBatchOpen[1]
    /\ batchSubmissionCount[1] >= 1
    /\ \E p \in Addresses :
           /\ batchGeneticData[1][p] # <<>>
           /\ submitResult(p, 1, <<Ciphertext>>) = "ok"
           /\ submitResult(p, 0, <<Ciphertext>>) = "BatchClosed"
           /\ submitResult(p, currentBatchId + 1, <<Ciphertext>>) = "BatchClosed"

\* The number of providers holding a non-empty stored list for batch b.
StoredProviders(b) == Cardinality({p \in Addresses : batchGeneticData[b][p] # <<>>})

\* C29: for every batch the submission counter is at least the number of
\* providers with a non-empty stored list for it, so a counter of 0 means
\* nobody has stored data for the batch; and every element of a stored list
\* is a normalised handle (initialised: never the uninitialised handle).
C29_CounterCoversStored ==
    \A b \in BatchIds :
        /\ batchSubmissionCount[b] >= StoredProviders(b)
        /\ batchSubmissionCount[b] = 0 =>
               \A p \in Addresses : batchGeneticData[b][p] = <<>>
        /\ \A p \in Addresses :
               /\ batchGeneticData[b][p] = Normalized(batchGeneticData[b][p])
               /\ \A i \in 1..Len(batchGeneticData[b][p]) :
                      batchGeneticData[b][p][i] # Uninitialized

\* C29 witness: two providers hold stored lists for one batch, whose counter
\* is 2, and one of the lists came from a submit of an uninitialised handle.
C29_Witness ==
    \E b \in BatchIds :
        /\ StoredProviders(b) = 2
        /\ batchSubmissionCount[b] = 2
        /\ lastCall.op = "submitEncryptedGeneticData"
        /\ lastCall.batchId = b
        /\ Uninitialized \in {lastCall.dataPoints[i] : i \in 1..Len(lastCall.dataPoints)}

\* C30: the cooldown check uses the cooldown value of the moment of the new
\* call: for an authorized identity in an unpaused system, a submit
\* (respectively a request) is rejected with CooldownActive exactly when now
\* is before the time of its last accepted submit (respectively request) plus
\* the current cooldownSeconds; after an accepted setCooldownSeconds(v) that
\* current value is v, whether v is lower or higher than the value in force
\* when the previous call was admitted.
C30_CurrentCooldownApplies ==
    \A p \in Addresses, b \in BatchIds :
        (isProvider[p] /\ ~paused) =>
            /\ \A h \in HandleLists :
                   /\ (submitResult(p, b, h) = "CooldownActive")
                      <=> (blockTimestamp < submittedAt[p] + cooldownSeconds)
                   /\ lastCall.op = "setCooldownSeconds" =>
                          ((submitResult(p, b, h) = "CooldownActive")
                           <=> (blockTimestamp < submittedAt[p] + lastCall.value))
            /\ (requestResult(p, b) = "CooldownActive")
               <=> (blockTimestamp < requestedAt[p] + cooldownSeconds)
            /\ lastCall.op = "setCooldownSeconds" =>
                   ((requestResult(p, b) = "CooldownActive")
                    <=> (blockTimestamp < requestedAt[p] + lastCall.value))

\* C30 witness: the administrator has just lowered the cooldown below the
\* default; a provider whose last submit was accepted exactly the new
\* cooldown ago, still inside the window of the default value, has its submit
\* accepted.
C30_Witness ==
    /\ lastCall.op = "setCooldownSeconds"
    /\ lastCall.value = TickStep
    /\ cooldownSeconds < DefaultCooldown
    /\ \E p \in Addresses, b \in BatchIds :
           /\ submittedAt[p] # 0
           /\ blockTimestamp = submittedAt[p] + cooldownSeconds
           /\ blockTimestamp < submittedAt[p] + DefaultCooldown
           /\ submitResult(p, b, <<Ciphertext>>) = "ok"

====
